---------------------------- MODULE Spec2Model ----------------------------
(***************************************************************************)
(* Two programs of the repository:                                         *)
(*   - "Morse Code Converter/app.py": load_char, get_input, main           *)
(*   - "Online Shop/onlineShop.py":   the cart, checkout and delivery      *)
(*     request handlers                                                    *)
(* Python strings are modelled as sequences of one-character strings, so   *)
(* that split, strip, lower and concatenation are computed, not assumed.   *)
(***************************************************************************)
EXTENDS Integers, Sequences, FiniteSets, TLC

VARIABLES
    \* ---- Morse Code Converter ----
    pc,             \* where main() is: "start", "get_input", "ask_continue",
                    \* "done" (after Goodbye), "crashed" (uncaught exception);
                    \* "translate", "translated" for the translation step alone
    file,           \* the resource "morse_code": readable or not, and its lines
    error,          \* the uncaught exception, "none" while there is none
    morse_chart,    \* main's morse_chart: a dict, as its insertion-ordered items
    line,           \* the last line read from standard input by input("> ")
    input_text,     \* main's input_text
    converted_text, \* main's converted_text
    out,            \* what was printed since the previous read of standard input
    \* ---- Online Shop ----
    stock,          \* Product.stock, by product id
    orders,         \* the Order rows (the carts), in the order of their ids
    transactions,   \* the Transaction rows, by transaction id (a sequence)
    current_user,   \* flask_login's current_user of the request handled last
    response,       \* the answer to the request handled last: its HTTP status
                    \* and, for a redirect, the view it redirects to
    only_cart_requests  \* so far every request was add_to_cart with a positive
                        \* count, increment_ or decrement_product_quantity

morse_vars == <<pc, file, error, morse_chart, line, input_text, converted_text, out>>
shop_vars == <<stock, orders, transactions, current_user, response, only_cart_requests>>
vars == <<pc, file, error, morse_chart, line, input_text, converted_text, out,
          stock, orders, transactions, current_user, response, only_cart_requests>>

\* ------------------------------------------------------------------ bounds
MaxLines == 2   \* lines of the resource file
MaxLen == 3     \* characters of a text handed to the translation step alone
MaxTyped == 2   \* characters of a text typed at the prompt of the running program

\* --------------------------------------------------------- string helpers
SeqsUpTo(S, n) == UNION {[1..k -> S] : k \in 0..n}

\* str.lower() on one character
LowerChar(c) ==
    CASE c = "A" -> "a"
      [] c = "B" -> "b"
      [] c = "N" -> "n"
      [] c = "O" -> "o"
      [] c = "Y" -> "y"
      [] OTHER -> c

\* str.lower()
Lower(s) == [i \in 1..Len(s) |-> LowerChar(s[i])]

\* str.split(sep) with a one-character sep: the fields between the separators,
\* empty fields kept; never an empty list
RECURSIVE Split(_, _)
Split(s, sep) ==
    IF s = <<>> THEN << <<>> >>
    ELSE LET rest == Split(Tail(s), sep)
         IN  IF Head(s) = sep
             THEN << <<>> >> \o rest
             ELSE << <<Head(s)>> \o rest[1] >> \o Tail(rest)

RECURSIVE LStrip(_, _)
LStrip(s, c) == IF s # <<>> /\ Head(s) = c THEN LStrip(Tail(s), c) ELSE s

RECURSIVE RStrip(_, _)
RStrip(s, c) ==
    IF s # <<>> /\ s[Len(s)] = c THEN RStrip(SubSeq(s, 1, Len(s) - 1), c) ELSE s

\* str.strip(c) with a one-character c: leading and trailing c removed
Strip(s, c) == RStrip(LStrip(s, c), c)

\* ------------------------------------------------------------------ dict
\* A Python dict as the sequence of its items in insertion order.
DictHas(d, k) == \E i \in 1..Len(d) : d[i].key = k

DictGet(d, k) == d[CHOOSE i \in 1..Len(d) : d[i].key = k].value

\* first-wins: a key already present keeps its value
DictSetKeepFirst(d, k, v) ==
    IF DictHas(d, k) THEN d ELSE Append(d, [key |-> k, value |-> v])

\* d[k] = v: a present key keeps its place and takes the new value
DictSet(d, k, v) ==
    IF DictHas(d, k)
    THEN [i \in 1..Len(d) |-> IF d[i].key = k THEN [key |-> k, value |-> v] ELSE d[i]]
    ELSE Append(d, [key |-> k, value |-> v])

\* ------------------------------------------------------- Code Table Loader
NL == "\n"
SP == " "

\* The lines a resource file is made of: records of the real chart, a second
\* record for "a", a blank line, a record whose code holds a space, and a
\* record without the final newline.
LineKinds ==
    { <<"a", SP, ".", "-", NL>>,
      <<"b", SP, "-", ".", ".", ".", NL>>,
      <<"a", SP, "-", NL>>,
      <<NL>>,
      <<"a", SP, ".", "-", SP, "-", NL>>,
      <<"b", SP, "-", ".", ".", ".">> }

\* f.readlines(): every line but the last ends with its newline
IsLines(ls) == \A i \in 1..Len(ls) - 1 : ls[i][Len(ls[i])] = NL

Unreadable == [readable |-> FALSE, lines |-> <<>>]

Files ==
    {Unreadable} \cup
    {[readable |-> TRUE, lines |-> ls] : ls \in {x \in SeqsUpTo(LineKinds, MaxLines) : IsLines(x)}}

\* line.split(" ")[0]
ParseKey(l) == Split(l, SP)[1]

\* the whole remainder of the line after the first space, newline stripped
ParseValueRemainder(l) ==
    LET k == Len(Split(l, SP)[1]) IN Strip(SubSeq(l, k + 2, Len(l)), NL)

\* line.split(" ")[1].strip("\n")
ParseValue(l) == Strip(Split(l, SP)[2], NL)

\* line.split(" ")[1] raises IndexError when the line holds no space
HasSecondField(l) == Len(Split(l, SP)) >= 2

\* the dict comprehension over f.readlines(), line by line
RECURSIVE Comprehension(_, _)
Comprehension(ls, d) ==
    IF ls = <<>> THEN [error |-> "none", mc_dict |-> d]
    ELSE IF ~HasSecondField(Head(ls)) THEN [error |-> "IndexError", mc_dict |-> <<>>]
    ELSE Comprehension(Tail(ls), DictSet(d, ParseKey(Head(ls)), ParseValue(Head(ls))))

\* an unreadable resource is taken for an empty chart
load_char_swallow(f) ==
    IF ~f.readable THEN [error |-> "none", mc_dict |-> <<>>]
    ELSE Comprehension(f.lines, <<>>)

\* load_char(): open() raises OSError (FileNotFoundError, PermissionError)
load_char(f) ==
    IF ~f.readable THEN [error |-> "OSError", mc_dict |-> <<>>]
    ELSE Comprehension(f.lines, <<>>)

\* -------------------------------------------------------------- Translator
\* the loop body without the separator
ConvertCharNoSpace(converted, char, chart) ==
    IF DictHas(chart, <<char>>) THEN converted \o DictGet(chart, <<char>>) ELSE converted

\* the loop body: if char in morse_chart: converted_text += morse_chart[char] + " "
ConvertChar(converted, char, chart) ==
    IF DictHas(chart, <<char>>)
    THEN converted \o DictGet(chart, <<char>>) \o <<SP>>
    ELSE converted

RECURSIVE ConvertFrom(_, _, _)
ConvertFrom(converted, text, chart) ==
    IF text = <<>> THEN converted
    ELSE ConvertFrom(ConvertChar(converted, Head(text), chart), Tail(text), chart)

\* converted_text = ""; for char in input_text: ...
Translate(text, chart) == ConvertFrom(<<>>, text, chart)


\* ------------------------------------------------------- Interactive Loop
\* One printed line: its text and, for the report, the converted text.
Msg(m) == [msg |-> m, arg |-> <<>>]
Welcome == Msg("Welcome to the Morse code converter.\n")
PleaseEnter == Msg("Please enter the text to convert:")
Prompt == Msg("> ")
Guidance == Msg("Please enter some text.")
Report(converted) == [msg |-> "Your input in morse code: ", arg |-> converted]
NoConvertible == Msg("The input did not contain any convertible character.")
Question == Msg("Do you want to convert something else? (y/n)")
Goodbye == Msg("Goodbye.")

\* the characters typed at the text prompt
TextChars == {"a", "b", "A", "1"}
Texts == SeqsUpTo(TextChars, MaxLen)
Typed == SeqsUpTo(TextChars, MaxTyped)

\* the answers typed at the continue prompt
Answers == {<<>>, <<"n">>, <<"N">>, <<"y">>, <<"n", "o">>}

\* get_input() takes every entry
RejectsNothing(text) == FALSE

\* get_input(): if input_text == ""
Rejects(text) == text = <<>>

\* the loop is left on the answer "n" only as typed
StopsOnExactN(answer) == answer = <<"n">>

\* if input("> ").lower() == "n": break
Stops(answer) == Lower(answer) = <<"n">>

\* if len(converted_text) > 0: print(report) else: print(notice)
ReportLine(converted) == IF Len(converted) > 0 THEN Report(converted) ELSE NoConvertible

\* main() up to its first read of standard input: load_char(), the welcome and
\* get_input()'s first prompt; an exception of load_char() is not caught
Start ==
    /\ pc = "start"
    /\ LET r == load_char(file)
       IN  IF r.error # "none"
           THEN /\ pc' = "crashed"
                /\ error' = r.error
                /\ out' = <<>>
                /\ UNCHANGED morse_chart
           ELSE /\ pc' = "get_input"
                /\ morse_chart' = r.mc_dict
                /\ out' = <<Welcome, PleaseEnter, Prompt>>
                /\ UNCHANGED error
    /\ UNCHANGED <<file, line, input_text, converted_text>>

\* get_input() reads a line; an empty one is answered with the guidance and
\* the prompt again, any other is returned to main(), which converts it,
\* reports and asks whether to go on
EnterText(typed) ==
    /\ pc = "get_input"
    /\ line' = typed
    /\ IF Rejects(Lower(typed))
       THEN /\ out' = <<Guidance, PleaseEnter, Prompt>>
            /\ UNCHANGED <<pc, input_text, converted_text>>
       ELSE /\ input_text' = Lower(typed)
            /\ converted_text' = Translate(Lower(typed), morse_chart)
            /\ out' = <<ReportLine(Translate(Lower(typed), morse_chart)), Question, Prompt>>
            /\ pc' = "ask_continue"
    /\ UNCHANGED <<file, error, morse_chart>>

\* the answer to the continue question: "n" leaves the loop, prints the
\* farewell and ends main(); anything else goes back to get_input()
Answer(typed) ==
    /\ pc = "ask_continue"
    /\ line' = typed
    /\ IF Stops(typed)
       THEN /\ out' = <<Goodbye>>
            /\ pc' = "done"
       ELSE /\ out' = <<PleaseEnter, Prompt>>
            /\ pc' = "get_input"
    /\ UNCHANGED <<file, error, morse_chart, input_text, converted_text>>

\* abort(status), an uncaught exception (500) or render_template (200)
Status(status) == [status |-> status, location |-> "none"]

\* redirect(url_for(view))
Redirect(view) == [status |-> 302, location |-> view]

\* the shop is not running
ShopIdle ==
    /\ stock = <<>>
    /\ orders = <<>>
    /\ transactions = <<>>
    /\ current_user = 0
    /\ response = Status(0)
    /\ only_cart_requests = TRUE

Init ==
    /\ ShopIdle
    /\ pc = "start"
    /\ file \in Files
    /\ error = "none"
    /\ morse_chart = <<>>
    /\ line = <<>>
    /\ input_text = <<>>
    /\ converted_text = <<>>
    /\ out = <<>>

Next ==
    \/ Start /\ UNCHANGED shop_vars
    \/ (\E typed \in Typed : EnterText(typed)) /\ UNCHANGED shop_vars
    \/ (\E typed \in Answers : Answer(typed)) /\ UNCHANGED shop_vars

Spec == Init /\ [][Next]_vars

\* ---- the translation step alone, on any text and any chart a file gives
Charts == {load_char(f).mc_dict : f \in {g \in Files : load_char(g).error = "none"}}

TranslateInit ==
    /\ ShopIdle
    /\ pc = "translate"
    /\ file = Unreadable
    /\ error = "none"
    /\ morse_chart \in Charts
    /\ line = <<>>
    /\ input_text \in Texts
    /\ converted_text = <<>>
    /\ out = <<>>

TranslateStep ==
    /\ pc = "translate"
    /\ converted_text' = Translate(input_text, morse_chart)
    /\ pc' = "translated"
    /\ UNCHANGED <<file, error, morse_chart, line, input_text, out>>
    /\ UNCHANGED shop_vars

SpecTranslate == TranslateInit /\ [][TranslateStep]_vars

\* ============================================================ Online Shop
\* The handlers run one request at a time on one database session
\* (db.session is the same session inside "with app.app_context()"), and each
\* ends with db.session.commit() or with an exception before any change.
Anonymous == 0          \* current_user of a request without a login
Admin == 1              \* the user the decorators single out: current_user.id == 1
Members == {2, 3}
Sessions == {Anonymous, Admin} \cup Members   \* current_user of a request
UrlUsers == Members                           \* <int:user_id> of the URL
Products == {1}                               \* the Product rows

MaxStock == 2           \* Product.stock when the shop opens
MaxCount == 2           \* the largest count posted to add_to_cart
MaxOrders == 2          \* Order rows in the table at a time
MaxTransactions == 1    \* Transaction rows ever created
MaxDebt == 1            \* how far below zero a stock or a quantity is followed

Counts == (0 - 1)..MaxCount

\* Order.query.filter_by(user_id=..., product_id=...): the places of the rows
OrdersOf(user, product) ==
    {o \in 1..Len(orders) : orders[o].user = user /\ orders[o].product = product}

\* Order.query.filter_by(user=current_user): the rows
CartOf(user) == SelectSeq(orders, LAMBDA row : row.user = user)

\* the Order rows of the other users
CartsButOf(user) == SelectSeq(orders, LAMBDA row : row.user # user)

\* db.session.delete(order): the table without the row at place o
Deleted(o) == SubSeq(orders, 1, o - 1) \o SubSeq(orders, o + 1, Len(orders))

\* the TransactionDetail rows checkout makes of the Order rows
Details(rows) ==
    [i \in 1..Len(rows) |-> [product |-> rows[i].product, quantity |-> rows[i].quantity]]

\* @login_required: without a login the request is answered 401
LoginRequired(user) == user # Anonymous

\* @member_only: current_user.is_authenticated and current_user.id != 1
MemberOnly(user) == user # Anonymous /\ user # Admin

\* the status of a request stopped by the decorators or by
\* "if user_id != current_user.id: return abort(403)", 0 when it goes on
Guard(user, user_id) ==
    IF ~LoginRequired(user) THEN 401
    ELSE IF ~MemberOnly(user) THEN 403
    ELSE IF user_id # user THEN 403
    ELSE 0

\* a request answered without a change of the database
Answered(answer) ==
    /\ response' = answer
    /\ UNCHANGED <<stock, orders, transactions>>

\* add_to_cart: if int(request.form.get('count')) > product.stock: redirect
AddRefused(count, product) == count > stock[product]

\* POST /cart/<user_id>/add/<product_id>
add_to_cart(user, user_id, product, count) ==
    /\ Len(orders) < MaxOrders
    /\ current_user' = user
    /\ only_cart_requests' = (only_cart_requests /\ count > 0)
    /\ IF AddRefused(count, product) THEN Answered(Redirect("home"))
       ELSE IF user = Anonymous THEN Answered(Status(500))  \* Order(user=current_user) raises
       ELSE /\ stock' = [stock EXCEPT ![product] = @ - count]
            /\ orders' = Append(orders, [user |-> user, product |-> product, quantity |-> count])
            /\ response' = Redirect("home")
            /\ UNCHANGED transactions

\* the increment that leaves the stock alone
IncrementedStockKept(product) == stock

\* increment_product_quantity: product.stock -= 1
IncrementedStock(product) == [stock EXCEPT ![product] = @ - 1]

\* GET /cart/<user_id>/increment_quantity/<product_id>
increment_product_quantity(user, user_id, product) ==
    /\ stock[product] > 0 - MaxDebt
    /\ current_user' = user
    /\ UNCHANGED only_cart_requests
    /\ IF Guard(user, user_id) # 0 THEN Answered(Status(Guard(user, user_id)))
       ELSE IF OrdersOf(user_id, product) = {} THEN Answered(Status(500))  \* order is None
       ELSE \E o \in OrdersOf(user_id, product) :   \* .first(), no ORDER BY
                /\ orders' = [orders EXCEPT ![o].quantity = @ + 1]
                /\ stock' = IncrementedStock(product)
                /\ response' = Redirect("get_cart")
                /\ UNCHANGED transactions

\* GET /cart/<user_id>/decrement_quantity/<product_id>
decrement_product_quantity(user, user_id, product) ==
    /\ current_user' = user
    /\ UNCHANGED only_cart_requests
    /\ IF Guard(user, user_id) # 0 THEN Answered(Status(Guard(user, user_id)))
       ELSE IF OrdersOf(user_id, product) = {} THEN Answered(Status(500))  \* order is None
       ELSE \E o \in OrdersOf(user_id, product) :   \* .first(), no ORDER BY
                /\ orders[o].quantity > 0 - MaxDebt
                /\ orders' = IF orders[o].quantity - 1 = 0
                             THEN Deleted(o)
                             ELSE [orders EXCEPT ![o].quantity = @ - 1]
                /\ stock' = [stock EXCEPT ![product] = @ + 1]
                /\ response' = Redirect("get_cart")
                /\ UNCHANGED transactions

\* /cart/<user_id>/checkout: a valid POST turns the cart into a Transaction
checkout(user, user_id, valid) ==
    /\ Len(transactions) < MaxTransactions
    /\ current_user' = user
    /\ only_cart_requests' = FALSE
    /\ IF Guard(user, user_id) # 0 THEN Answered(Status(Guard(user, user_id)))
       ELSE IF ~valid THEN Answered(Status(200))   \* checkout.html
       ELSE /\ transactions' = Append(transactions,
                    [user |-> user, payment_status |-> "Unpaid",
                     delivery_status |-> "Unsent", details |-> Details(CartOf(user))])
            /\ orders' = CartsButOf(user)
            /\ response' = Redirect("get_transaction_history")
            /\ UNCHANGED stock

\* /history/<user_id>/<transaction_id>/delivered
product_delivered(user, user_id, transaction_id) ==
    /\ current_user' = user
    /\ only_cart_requests' = FALSE
    /\ IF Guard(user, user_id) # 0 THEN Answered(Status(Guard(user, user_id)))
       ELSE IF transaction_id \notin 1..Len(transactions) THEN Answered(Status(500)) \* None
       ELSE /\ transactions' = [transactions EXCEPT
                    ![transaction_id].delivery_status = "Delivered",
                    ![transaction_id].payment_status = "Paid"]
            /\ response' = Redirect("get_transaction_history")
            /\ UNCHANGED <<stock, orders>>

MorseIdle ==
    /\ pc = "start"
    /\ file = Unreadable
    /\ error = "none"
    /\ morse_chart = <<>>
    /\ line = <<>>
    /\ input_text = <<>>
    /\ converted_text = <<>>
    /\ out = <<>>

ShopInit ==
    /\ MorseIdle
    /\ stock \in [Products -> 0..MaxStock]
    /\ orders = <<>>
    /\ transactions = <<>>
    /\ current_user = 0
    /\ response = Status(0)
    /\ only_cart_requests = TRUE

ShopNext ==
    \/ \E u \in Sessions, i \in UrlUsers, p \in Products, c \in Counts :
           add_to_cart(u, i, p, c) /\ UNCHANGED morse_vars
    \/ \E u \in Sessions, i \in UrlUsers, p \in Products :
           increment_product_quantity(u, i, p) /\ UNCHANGED morse_vars
    \/ \E u \in Sessions, i \in UrlUsers, p \in Products :
           decrement_product_quantity(u, i, p) /\ UNCHANGED morse_vars
    \/ \E u \in Sessions, i \in UrlUsers, v \in BOOLEAN :
           checkout(u, i, v) /\ UNCHANGED morse_vars
    \/ \E u \in Sessions, i \in UrlUsers, t \in 1..MaxTransactions :
           product_delivered(u, i, t) /\ UNCHANGED morse_vars

SpecShop == ShopInit /\ [][ShopNext]_vars

\* the cart alone: the three requests that move units between stock and carts
CartNext ==
    \/ \E u \in Sessions, i \in UrlUsers, p \in Products, c \in Counts :
           add_to_cart(u, i, p, c) /\ UNCHANGED morse_vars
    \/ \E u \in Sessions, i \in UrlUsers, p \in Products :
           increment_product_quantity(u, i, p) /\ UNCHANGED morse_vars
    \/ \E u \in Sessions, i \in UrlUsers, p \in Products :
           decrement_product_quantity(u, i, p) /\ UNCHANGED morse_vars

SpecCart == ShopInit /\ [][CartNext]_vars

\* ================================================================ claims
\* the concatenation of a sequence of strings, left to right
RECURSIVE Concat(_)
Concat(ss) == IF ss = <<>> THEN <<>> ELSE Head(ss) \o Concat(Tail(ss))

\* the characters of text that are keys of chart, in the order of text
Keyed(text, chart) == SelectSeq(text, LAMBDA c : DictHas(chart, <<c>>))

\* the chart {'a': '.-', 'b': '-...'}
ExampleChart ==
    << [key |-> <<"a">>, value |-> <<".", "-">>],
       [key |-> <<"b">>, value |-> <<"-", ".", ".", ".">>] >>

ExampleOutput == <<".", "-", SP, "-", ".", ".", ".", SP>>

\* C1: the translation of s is the concatenation, in the order of s, of
\* table[c] and one space for each character c of s that is a key of the
\* table, and nothing for the other characters; so it is empty when no
\* character of s is a key, a non-empty result ends with a space, and the
\* chart {'a': '.-', 'b': '-...'} maps both "ab" and "a1b" to ".- -... ".
C1_Translation ==
    pc = "translated" =>
        LET keyed == Keyed(input_text, morse_chart)
        IN  /\ converted_text =
                 Concat([i \in 1..Len(keyed) |-> DictGet(morse_chart, <<keyed[i]>>) \o <<SP>>])
            /\ (keyed = <<>> => converted_text = <<>>)
            /\ (converted_text # <<>> => converted_text[Len(converted_text)] = SP)
            /\ (morse_chart = ExampleChart /\ input_text \in {<<"a", "b">>, <<"a", "1", "b">>}
                    => converted_text = ExampleOutput)

C1_Witness ==
    /\ pc = "translated"
    /\ morse_chart = ExampleChart
    /\ input_text = <<"a", "1", "b">>
    /\ converted_text = ExampleOutput

\* how often the line m is in the output o
Count(o, m) == Cardinality({i \in 1..Len(o) : o[i] = m})

\* C2: after a report the continue question is asked exactly once; an answer
\* that lowercased is "n" ends the loop, prints the farewell and ends the
\* program, every other answer goes back to asking for a text; the program
\* ends (after the farewell) only by such an answer, and does nothing after.
C2_ContinueDecision ==
    [][ /\ (pc' = "ask_continue" =>
                /\ Count(out', Question) = 1
                /\ out'[1] \in {NoConvertible, Report(converted_text')})
        /\ (pc = "ask_continue" =>
                IF line' \in {<<"n">>, <<"N">>}
                THEN pc' = "done" /\ out' = <<Goodbye>>
                ELSE pc' = "get_input" /\ out' = <<PleaseEnter, Prompt>>)
        /\ (pc' = "done" => pc = "ask_continue" /\ line' \in {<<"n">>, <<"N">>})
        /\ pc # "done"
      ]_vars

C2_Witness == pc = "done" /\ line = <<"N">> /\ out = <<Goodbye>>

\* C3: an empty entry at the text prompt prints the guidance and prompts
\* again, with no translation, no report and no continue question, and leaves
\* the program where it was (so this repeats for any number of empty
\* entries); the text translated is never empty and is the lowercased entry.
C3_EmptyEntry ==
    [][ /\ (pc = "get_input" /\ line' = <<>> =>
                /\ pc' = "get_input"
                /\ out' = <<Guidance, PleaseEnter, Prompt>>
                /\ UNCHANGED <<input_text, converted_text, morse_chart>>)
        /\ (pc = "get_input" /\ pc' = "ask_continue" =>
                /\ input_text' # <<>>
                /\ input_text' = Lower(line')
                /\ converted_text' = Translate(input_text', morse_chart))
      ]_vars

C3_Witness ==
    /\ pc = "get_input"
    /\ line = <<>>
    /\ out = <<Guidance, PleaseEnter, Prompt>>
    /\ input_text # <<>>

\* the load has returned a chart
Loaded == file.readable /\ pc \notin {"start", "crashed"}

\* the last line of the file whose key is k
LastLineOf(k) ==
    file.lines[CHOOSE i \in 1..Len(file.lines) :
                   /\ ParseKey(file.lines[i]) = k
                   /\ \A j \in (i + 1)..Len(file.lines) : ParseKey(file.lines[j]) # k]

\* C4: a symbol on several lines of the file gets the code of its last line,
\* and the chart keeps a single entry for it.
C4_LastLineWins ==
    Loaded =>
        \A i \in 1..Len(file.lines) :
            LET k == ParseKey(file.lines[i])
            IN  /\ Cardinality({e \in 1..Len(morse_chart) : morse_chart[e].key = k}) = 1
                /\ DictGet(morse_chart, k) = ParseValue(LastLineOf(k))

C4_Witness ==
    /\ Loaded
    /\ \E i, j \in 1..Len(file.lines) :
           /\ i < j
           /\ ParseKey(file.lines[i]) = ParseKey(file.lines[j])
           /\ ParseValue(file.lines[i]) # ParseValue(file.lines[j])
           /\ DictGet(morse_chart, ParseKey(file.lines[j])) = ParseValue(file.lines[j])

IsBlank(l) == l \in {<<>>, <<NL>>}

\* C5: for every readable file, blank lines included, the loader returns a
\* chart with an entry for each non-blank line (one per symbol, see C4) and
\* none for the blank lines.
C5_OneEntryPerNonBlankLine ==
    file.readable /\ pc # "start" =>
        /\ error = "none"
        /\ {morse_chart[e].key : e \in 1..Len(morse_chart)} =
               {ParseKey(file.lines[i]) : i \in {j \in 1..Len(file.lines) : ~IsBlank(file.lines[j])}}
        /\ \A e1, e2 \in 1..Len(morse_chart) :
               morse_chart[e1].key = morse_chart[e2].key => e1 = e2

\* the place of the n-th space of l, Len(l) + 1 when there is none
RECURSIVE SpaceAt(_, _, _)
SpaceAt(l, n, from) ==
    IF from > Len(l) THEN Len(l) + 1
    ELSE IF l[from] = SP
         THEN IF n = 1 THEN from ELSE SpaceAt(l, n - 1, from + 1)
         ELSE SpaceAt(l, n, from + 1)

\* l without its trailing newline
Chomp(l) == IF l # <<>> /\ l[Len(l)] = NL THEN SubSeq(l, 1, Len(l) - 1) ELSE l

\* C6 as stated: the key is the text before the first space and the code is
\* the whole remainder of the line without its trailing newline.
C6_WholeRemainder ==
    Loaded =>
        \A i \in 1..Len(file.lines) :
            LET l == file.lines[i]
                k == SubSeq(l, 1, SpaceAt(l, 1, 1) - 1)
            IN  l = LastLineOf(k) =>
                    /\ DictHas(morse_chart, k)
                    /\ DictGet(morse_chart, k) = Chomp(SubSeq(l, SpaceAt(l, 1, 1) + 1, Len(l)))

\* C6 as amended: the key is the text before the first space and the code is
\* the text between the first space and the second one, or, when the line
\* has no second space, the end of the line without its trailing newline.
C6_UpToSecondSpace ==
    Loaded =>
        \A i \in 1..Len(file.lines) :
            LET l == file.lines[i]
                k == SubSeq(l, 1, SpaceAt(l, 1, 1) - 1)
            IN  l = LastLineOf(k) =>
                    /\ DictHas(morse_chart, k)
                    /\ DictGet(morse_chart, k) =
                           Chomp(SubSeq(l, SpaceAt(l, 1, 1) + 1, SpaceAt(l, 2, 1) - 1))

C6_Witness ==
    /\ Loaded
    /\ \E i \in 1..Len(file.lines) :
           /\ SpaceAt(file.lines[i], 2, 1) <= Len(file.lines[i])
           /\ file.lines[i] = LastLineOf(ParseKey(file.lines[i]))
           /\ DictGet(morse_chart, <<"a">>) = <<".", "-">>

\* C7: when the resource cannot be opened or read, the error is not caught
\* and the program ends before the loop: nothing is printed (no welcome, no
\* prompt, no report, no farewell), nothing is read or translated, and
\* nothing follows (no retry).
C7_LoadFailureAborts ==
    [][ /\ (~file.readable =>
                /\ pc = "start"
                /\ pc' = "crashed"
                /\ error' = "OSError"
                /\ out' = <<>>
                /\ UNCHANGED <<morse_chart, line, input_text, converted_text>>)
        /\ pc # "crashed"
      ]_vars

C7_Witness == ~file.readable /\ pc = "crashed" /\ error = "OSError" /\ out = <<>>

\* the units of a product in the carts
RECURSIVE InCarts(_, _)
InCarts(rows, product) ==
    IF rows = <<>> THEN 0
    ELSE (IF Head(rows).product = product THEN Head(rows).quantity ELSE 0)
             + InCarts(Tail(rows), product)

\* C8: after any sequence of add_to_cart requests with a positive count and
\* increment_ and decrement_product_quantity requests, by any users, every
\* product's stock is at least 0.
C8_StockNeverNegative ==
    only_cart_requests => \A p \in Products : stock[p] >= 0

\* C9: every add_to_cart, increment_product_quantity and
\* decrement_product_quantity request leaves, for every product, the sum of
\* its stock and of the quantities of its Order rows as it was, the
\* decrement that deletes the order included.
C9_UnitsConserved ==
    [][ CartNext =>
            \A p \in Products :
                stock'[p] + InCarts(orders', p) = stock[p] + InCarts(orders, p)
      ]_vars

\* a decrement has just deleted the last Order row, after an add_to_cart
\* that took every unit in stock
C9_Witness ==
    /\ response = Redirect("get_cart")
    /\ orders = <<>>
    /\ only_cart_requests
    /\ \E p \in Products : stock[p] = 1

\* C10: product_delivered sets 'Delivered' and 'Paid' only on a transaction
\* of the logged-in member who makes the request: a request of user A never
\* changes a transaction of another user B, and a request of a logged-in
\* user for the user_id of another is answered 403 and changes nothing.
C10_OwnTransactionsOnly ==
    [][ /\ \A k \in 1..Len(transactions) :
               transactions'[k] # transactions[k] =>
                   /\ current_user' \in Members
                   /\ transactions[k].user = current_user'
                   /\ transactions'[k] = [transactions[k] EXCEPT
                          !.delivery_status = "Delivered", !.payment_status = "Paid"]
        /\ \A u \in Sessions, i \in UrlUsers, t \in 1..MaxTransactions :
               product_delivered(u, i, t) /\ u # Anonymous /\ i # u =>
                   response'.status = 403 /\ transactions' = transactions
      ]_vars

=============================================================================
